---- MODULE Spec2Model ----
(***************************************************************************)
(* daugx: the block compiler (core/agent/block.py, Blocks), the path       *)
(* sampler (Blocks.fetch_path / root) and the scheduler                    *)
(* (core/agent/executor.py, Executor), as a state machine.                 *)
(*                                                                         *)
(* Numbers that are Python floats in the source (shares, execution         *)
(* probabilities, random draws) are exact rationals <<num, den>> here.     *)
(* Ids are pairs: <<"raw", n>> for the ids of the workflow file,           *)
(* <<"uuid", k>> for an id made by new_id from the k-th draw of the        *)
(* generator, <<"output", 0>> for the DATA_OUTPUT key.                     *)
(***************************************************************************)
EXTENDS Integers, Sequences, FiniteSets, TLC

VARIABLES
    wf,         \* index of the workflow file the Agent was constructed with
    seed,       \* the seed of the generator: the levels it yields, repeated
    gen,        \* state of the shared np.random.Generator: draws made so far
    pc,         \* "new" | "idle" | "exec" | "build_error"
    blocks,     \* Blocks.__blocks: the compiled blocks, in insertion order
    data,       \* Executor.__data: data-id -> (image, annotations)
    path,       \* Executor.__path: the deep copy of the fetched path, or NoPath
    inputs,     \* _execute_path's list of the path's input blocks, made when its loop starts
    cursor,     \* position of _execute_path's two loops: <<input index, use index>>
    nfetch,     \* number of fetch() calls started
    outcome,    \* how the last fetch() call ended: "none" | "ok" | an exception name
    result,     \* value returned by the last fetch() that returned
    built,      \* history: the compiled blocks as Blocks.build left them
    hist,       \* history of the running fetch() call (dataset draws, apply calls, ...)
    trace,      \* history: what each fetch() call of this run that has ended left
    run,        \* 1 for the first Agent constructed, 2 for the second
    ambient,    \* state of the interpreter outside the generator (its random module)
    first,      \* history: what the first run built and what its fetch() calls left
    who,        \* the thread that is running: 1 or 2
    other       \* the thread that is not running: its position and its locals

vars == <<wf, seed, gen, pc, blocks, data, path, inputs, cursor, nfetch, outcome, result,
          built, hist, trace, run, ambient, first, who, other>>

-----------------------------------------------------------------------------
(* Bounds of the model *)

MaxFetches == 2
TapePeriod == 3
RandLevels == 2
AmbientStates == 2
\* the workflows on which the steps of two concurrent calls are interleaved
MaxInterleavedWf == 23

-----------------------------------------------------------------------------
(* Exact arithmetic standing for the float arithmetic of the source *)

Abs(x) == IF x < 0 THEN -x ELSE x

RECURSIVE Gcd(_, _)
Gcd(a, b) == IF b = 0 THEN a ELSE Gcd(b, a % b)

\* the rational n/d in lowest terms, d > 0
R(n, d) ==
    LET g == Gcd(Abs(n), Abs(d))
        s == IF d < 0 THEN -1 ELSE 1
    IN  <<(s * n) \div g, (s * d) \div g>>

\* Python's None where a number is expected
None == <<0, 0>>

RAdd(x, y) == R(x[1] * y[2] + y[1] * x[2], x[2] * y[2])
RMul(x, y) == R(x[1] * y[1], x[2] * y[2])
RDiv(x, y) == R(x[1] * y[2], x[2] * y[1])
RLt(x, y) == x[1] * y[2] < y[1] * x[2]
RLe(x, y) == x[1] * y[2] <= y[1] * x[2]
RInt(n) == <<n, 1>>

RECURSIVE RSum(_)
RSum(s) == IF s = <<>> THEN RInt(0) ELSE RAdd(Head(s), RSum(Tail(s)))

\* Python's int(x) of a rational x >= 0
RFloor(x) == x[1] \div x[2]

\* Python's round(x) of a rational x >= 0: to the nearest integer, ties to even
RRound(x) ==
    LET f == x[1] \div x[2]
        twice == 2 * (x[1] - f * x[2])
    IN  IF twice < x[2] THEN f
        ELSE IF twice > x[2] THEN f + 1
        ELSE IF f % 2 = 0 THEN f ELSE f + 1

-----------------------------------------------------------------------------
(* utils/misc.py: the seeded generator and what is drawn from it *)

\* mutation of get_random: the draw also depends on the state of the
\* interpreter outside the generator
get_random_ambient(sd, pos) ==
    R((sd[(pos % TapePeriod) + 1] + ambient) % RandLevels, RandLevels)

\* gen.random(): the draw the generator yields in state pos, for a seed
get_random(sd, pos) == R(sd[(pos % TapePeriod) + 1], RandLevels)

\* new_id: uuid5 of the drawn float. The floats of successive draws are pairwise
\* distinct, so the id is determined by, and unique to, the draw
new_id(sd, pos) == <<"uuid", pos>>

is_executed(execution_probability, sd, pos) ==
    RLt(get_random(sd, pos), execution_probability)

\* index (1-based) of the value fetch_by_prob_list returns for the draw rand
RECURSIVE ProbIndex(_, _, _, _)
ProbIndex(probability_list, rand, i, prob_sum) ==
    IF i > Len(probability_list) THEN Len(probability_list)
    ELSE LET s == RAdd(prob_sum, probability_list[i])
         IN  IF RLt(rand, s) THEN i ELSE ProbIndex(probability_list, rand, i + 1, s)

fetch_by_prob_list(value_list, probability_list, rand) ==
    value_list[ProbIndex(probability_list, rand, 1, RInt(0))]

\* fetch_by_prob: 0-based index int(probability * len(value_list))
fetch_by_prob_index(n, probability) == RFloor(RMul(probability, RInt(n)))

-----------------------------------------------------------------------------
(* The workflow files (lists of raw block dicts) and the datasets *)

RawId(n) == <<"raw", n>>

\* Python's None where a filter id is expected
NoFilter == "None"

\* a raw block dict of type "input"
RawInput(n, next_, shares, dataset, n_total_data, filters) ==
    [id |-> RawId(n), type |-> "input", prev |-> <<>>, next |-> next_, shares |-> shares,
     dataset |-> dataset, n_total_data |-> n_total_data, filters |-> filters,
     class_name |-> "", exe_prob |-> None, exe_float |-> FALSE, kwargs |-> 0]

\* a raw block dict of type "augmentation"; exe_float tells a float exe_prob
\* (0.0, 0.5, 1.0) from an int one (0, 1); kwargs stands for the parameters
\* the augmentation is constructed with
RawAugment(n, prev, next_, shares, class_name, exe_prob, exe_float, kwargs) ==
    [id |-> RawId(n), type |-> "augmentation", prev |-> prev, next |-> next_, shares |-> shares,
     dataset |-> "", n_total_data |-> 0, filters |-> <<>>,
     class_name |-> class_name, exe_prob |-> exe_prob, exe_float |-> exe_float, kwargs |-> kwargs]

One == <<RInt(1)>>
Half == R(1, 2)

Workflows == <<
    \* 1, scenario A: Source -> Shift (fires always), the sink
    << RawInput(1, <<RawId(2)>>, One, "d1", 100, <<>>),
       RawAugment(2, <<RawId(1)>>, <<>>, One, "Shift", RInt(1), TRUE, 1) >>,
    \* 2, scenario C: Source -> Mosaic (fires always), the sink
    << RawInput(1, <<RawId(2)>>, One, "d1", 100, <<>>),
       RawAugment(2, <<RawId(1)>>, <<>>, One, "Mosaic", RInt(1), TRUE, 1) >>,
    \* 3: Source -> Mosaic that fires with probability 1/2, the sink
    << RawInput(1, <<RawId(2)>>, One, "d1", 100, <<>>),
       RawAugment(2, <<RawId(1)>>, <<>>, One, "Mosaic", Half, TRUE, 1) >>,
    \* 4, scenario D: Source -> Shift that never fires (0.0), the sink
    << RawInput(1, <<RawId(2)>>, One, "d1", 100, <<>>),
       RawAugment(2, <<RawId(1)>>, <<>>, One, "Shift", RInt(0), TRUE, 1) >>,
    \* 5, scenario B: Sources of 100 and 300 items -> one Shift, the sink
    << RawInput(1, <<RawId(3)>>, One, "d1", 100, <<>>),
       RawInput(2, <<RawId(3)>>, One, "d2", 300, <<>>),
       RawAugment(3, <<RawId(1), RawId(2)>>, <<>>, One, "Shift", RInt(1), TRUE, 1) >>,
    \* 6: two Sources of equal weight -> one Rotate that fires half of the time, the sink
    << RawInput(1, <<RawId(3)>>, One, "d1", 100, <<>>),
       RawInput(2, <<RawId(3)>>, One, "d2", 100, <<>>),
       RawAugment(3, <<RawId(1), RawId(2)>>, <<>>, One, "Rotate", Half, TRUE, 1) >>,
    \* 7: a Source with two branches of raw weights 2 and 6
    << RawInput(1, <<RawId(2), RawId(3)>>, <<RInt(2), RInt(6)>>, "d1", 100, <<>>),
       RawAugment(2, <<RawId(1)>>, <<>>, One, "Shift", RInt(1), TRUE, 1),
       RawAugment(3, <<RawId(1)>>, <<>>, One, "Rotate", RInt(1), TRUE, 1) >>,
    \* 8: a Source with two branches of shares 1/2 and 1/2, each with its filter
    << RawInput(1, <<RawId(2), RawId(3)>>, <<Half, Half>>, "d2", 100, <<"f1", "f2">>),
       RawAugment(2, <<RawId(1)>>, <<>>, One, "Shift", RInt(1), TRUE, 1),
       RawAugment(3, <<RawId(1)>>, <<>>, One, "Rotate", RInt(1), TRUE, 1) >>,
    \* 9: Source -> Shift that fires half of the time -> MixUp, the sink
    << RawInput(1, <<RawId(2)>>, One, "d2", 100, <<>>),
       RawAugment(2, <<RawId(1)>>, <<RawId(3)>>, One, "Shift", Half, TRUE, 1),
       RawAugment(3, <<RawId(2)>>, <<>>, One, "MixUp", RInt(1), TRUE, 1) >>,
    \* 10: scenario D written with the int 0 as exe_prob
    << RawInput(1, <<RawId(2)>>, One, "d1", 100, <<>>),
       RawAugment(2, <<RawId(1)>>, <<>>, One, "Shift", RInt(0), FALSE, 1) >>,
    \* 11: a Transform with two branches of raw weights 2 and 6
    << RawInput(1, <<RawId(2)>>, One, "d1", 100, <<>>),
       RawAugment(2, <<RawId(1)>>, <<RawId(3), RawId(4)>>, <<RInt(2), RInt(6)>>, "Shift", RInt(1), TRUE, 1),
       RawAugment(3, <<RawId(2)>>, <<>>, One, "Rotate", RInt(1), TRUE, 1),
       RawAugment(4, <<RawId(2)>>, <<>>, One, "Rotate", RInt(1), TRUE, 2) >>,
    \* 12: a Transform with two branches of shares 1/4 and 3/4
    << RawInput(1, <<RawId(2)>>, One, "d1", 100, <<>>),
       RawAugment(2, <<RawId(1)>>, <<RawId(3), RawId(4)>>, <<R(1, 4), R(3, 4)>>, "Shift", RInt(1), TRUE, 1),
       RawAugment(3, <<RawId(2)>>, <<>>, One, "Rotate", RInt(1), TRUE, 1),
       RawAugment(4, <<RawId(2)>>, <<>>, One, "Rotate", RInt(1), TRUE, 2) >>,
    \* 13: two Sources of equal weight, one -> Shift (a sink), one -> Mosaic (a sink)
    << RawInput(1, <<RawId(3)>>, One, "d1", 100, <<>>),
       RawInput(2, <<RawId(4)>>, One, "d2", 100, <<>>),
       RawAugment(3, <<RawId(1)>>, <<>>, One, "Shift", RInt(1), TRUE, 1),
       RawAugment(4, <<RawId(2)>>, <<>>, One, "Mosaic", RInt(1), TRUE, 1) >>,
    \* 14: as 13, but the Shift names a next that no block of the list has
    << RawInput(1, <<RawId(3)>>, One, "d1", 100, <<>>),
       RawInput(2, <<RawId(4)>>, One, "d2", 100, <<>>),
       RawAugment(3, <<RawId(1)>>, <<RawId(9)>>, One, "Shift", RInt(1), TRUE, 1),
       RawAugment(4, <<RawId(2)>>, <<>>, One, "Mosaic", RInt(1), TRUE, 1) >>,
    \* 15: a Source with two next ids and one share
    << RawInput(1, <<RawId(2), RawId(3)>>, One, "d1", 100, <<>>),
       RawAugment(2, <<RawId(1)>>, <<>>, One, "Mosaic", RInt(1), TRUE, 1),
       RawAugment(3, <<RawId(1)>>, <<>>, One, "Rotate", RInt(1), TRUE, 1) >>,
    \* 16: a Source with one next id and two shares
    << RawInput(1, <<RawId(2)>>, <<Half, Half>>, "d1", 100, <<>>),
       RawAugment(2, <<RawId(1)>>, <<>>, One, "Mosaic", RInt(1), TRUE, 1) >>,
    \* 17: no block with an empty next: the Shift names a next that no block has
    << RawInput(1, <<RawId(2)>>, One, "d1", 100, <<>>),
       RawAugment(2, <<RawId(1)>>, <<RawId(9)>>, One, "Shift", RInt(1), TRUE, 1) >>,
    \* 18: a Source whose shares sum to -1
    << RawInput(1, <<RawId(2)>>, <<RInt(-1)>>, "d1", 100, <<>>),
       RawAugment(2, <<RawId(1)>>, <<>>, One, "Mosaic", RInt(1), TRUE, 1) >>,
    \* 19: a Transform whose shares sum to 0
    << RawInput(1, <<RawId(2)>>, One, "d1", 100, <<>>),
       RawAugment(2, <<RawId(1)>>, <<>>, <<RInt(0)>>, "Mosaic", RInt(1), TRUE, 1) >>,
    \* 20: a Transform with two branches of shares 1/2 and 1/2
    << RawInput(1, <<RawId(2)>>, One, "d1", 100, <<>>),
       RawAugment(2, <<RawId(1)>>, <<RawId(3), RawId(4)>>, <<Half, Half>>, "Shift", RInt(1), TRUE, 1),
       RawAugment(3, <<RawId(2)>>, <<>>, One, "Rotate", RInt(1), TRUE, 1),
       RawAugment(4, <<RawId(2)>>, <<>>, One, "Mosaic", RInt(1), TRUE, 1) >>,
    \* 21: Source 1 -> Shift -> Rotate with two branches (1/4, 3/4), each to a
    \* sink; Source 2 of equal weight -> Mosaic, a sink
    << RawInput(1, <<RawId(3)>>, One, "d1", 100, <<>>),
       RawInput(2, <<RawId(7)>>, One, "d2", 100, <<>>),
       RawAugment(3, <<RawId(1)>>, <<RawId(4)>>, One, "Shift", RInt(1), TRUE, 1),
       RawAugment(4, <<RawId(3)>>, <<RawId(5), RawId(6)>>, <<R(1, 4), R(3, 4)>>, "Rotate", RInt(1), TRUE, 1),
       RawAugment(5, <<RawId(4)>>, <<>>, One, "Shift", RInt(1), TRUE, 2),
       RawAugment(6, <<RawId(4)>>, <<>>, One, "Shift", RInt(1), TRUE, 3),
       RawAugment(7, <<RawId(2)>>, <<>>, One, "Mosaic", RInt(1), TRUE, 1) >>,
    \* 22: the empty workflow
    << >>,
    \* 23: the Mosaic names a prev that no block of the list has
    << RawInput(1, <<RawId(2)>>, One, "d1", 100, <<>>),
       RawAugment(2, <<RawId(9)>>, <<>>, One, "Mosaic", RInt(1), TRUE, 1) >>,
    \* 24: Source -> MixUp -> MixUp, the sink: two confluent operators in a row
    << RawInput(1, <<RawId(2)>>, One, "d1", 100, <<>>),
       RawAugment(2, <<RawId(1)>>, <<RawId(3)>>, One, "MixUp", RInt(1), TRUE, 1),
       RawAugment(3, <<RawId(2)>>, <<>>, One, "MixUp", RInt(1), TRUE, 2) >>,
    \* 25: a Source with two filtered branches, each to a Mosaic that is a sink
    << RawInput(1, <<RawId(2), RawId(3)>>, <<Half, Half>>, "d2", 100, <<"f1", "f2">>),
       RawAugment(2, <<RawId(1)>>, <<>>, One, "Mosaic", RInt(1), TRUE, 1),
       RawAugment(3, <<RawId(1)>>, <<>>, One, "Mosaic", RInt(1), TRUE, 2) >>,
    \* 26: Source -> Shift with two branches (1/4, 3/4), each to a Mosaic sink
    << RawInput(1, <<RawId(2)>>, One, "d1", 100, <<>>),
       RawAugment(2, <<RawId(1)>>, <<RawId(3), RawId(4)>>, <<R(1, 4), R(3, 4)>>, "Shift", RInt(1), TRUE, 1),
       RawAugment(3, <<RawId(2)>>, <<>>, One, "Mosaic", RInt(1), TRUE, 1),
       RawAugment(4, <<RawId(2)>>, <<>>, One, "Mosaic", RInt(1), TRUE, 2) >>,
    \* 27: a Source whose two branches (Shift, Rotate) reconverge on one Mosaic
    << RawInput(1, <<RawId(2), RawId(3)>>, <<Half, Half>>, "d1", 100, <<>>),
       RawAugment(2, <<RawId(1)>>, <<RawId(4)>>, One, "Shift", RInt(1), TRUE, 1),
       RawAugment(3, <<RawId(1)>>, <<RawId(4)>>, One, "Rotate", RInt(1), TRUE, 1),
       RawAugment(4, <<RawId(2), RawId(3)>>, <<>>, One, "Mosaic", RInt(1), TRUE, 1) >>,
    \* 28: two Sources, each to a Shift of its own with the same parameters;
    \* the first Shift goes on to a Mosaic sink, the second to a MixUp sink
    << RawInput(1, <<RawId(3)>>, One, "d1", 100, <<>>),
       RawInput(2, <<RawId(4)>>, One, "d2", 100, <<>>),
       RawAugment(3, <<RawId(1)>>, <<RawId(5)>>, One, "Shift", RInt(1), TRUE, 1),
       RawAugment(4, <<RawId(2)>>, <<RawId(6)>>, One, "Shift", RInt(1), TRUE, 1),
       RawAugment(5, <<RawId(3)>>, <<>>, One, "Mosaic", RInt(1), TRUE, 1),
       RawAugment(6, <<RawId(4)>>, <<>>, One, "MixUp", RInt(1), TRUE, 1) >>
>>

\* the Dataset objects the Agent is constructed with. n: number of data packages;
\* background_percentage (None if not configured); background_indexes and
\* filter_indexes as _init_filters left them (0-based indexes of data packages)
Datasets ==
    [d \in {"d1", "d2"} |->
        IF d = "d1"
        THEN [n |-> 2, background_percentage |-> None, background_indexes |-> <<>>,
              filter_indexes |-> [f \in {"f1", "f2"} |-> <<0, 1>>]]
        ELSE [n |-> 2, background_percentage |-> Half, background_indexes |-> <<1>>,
              filter_indexes |-> [f \in {"f1", "f2"} |-> IF f = "f1" THEN <<0>> ELSE <<1>>]]]

-----------------------------------------------------------------------------
(* core/agent/block.py: Block, Input, Augment *)

\* inflation of the single-image transforms (Shift, Scale, Rotate, Resize, Crop)
SITransformInflation == RInt(1)

\* augmentation.inflation of the augmentation class
AugInflation(class_name) ==
    CASE class_name = "Mosaic" -> R(1, 4)
      [] class_name = "MixUp" -> R(1, 2)
      [] OTHER -> SITransformInflation

\* Block._normalize_shares: the loop multiplies its loop variable, a local name,
\* and stores nothing: the shares stay as they were given
_normalize_shares(shares) == shares

\* Block.__init__; the fields of the subclasses are filled in by Input and Augment
Block(id_, prev, next_, shares, category) ==
    [id |-> id_, raw |-> id_, category |-> category,
     next |-> next_, prev |-> prev,
     is_output |-> (next_ = <<>>), is_input |-> (prev = <<>>),
     shares |-> _normalize_shares(shares),
     variations |-> Len(shares), is_set |-> (Len(shares) = 1), share |-> None,
     ext_exe_prob |-> RInt(1), int_exe_prob |-> RInt(1),
     prev_ext_exe_probs |-> <<>>, input_image_ids |-> <<>>,
     n_total_data |-> 0, dataset |-> "", filters |-> <<>>, n_data |-> None,
     filter |-> NoFilter, uses |-> 0, input_share |-> None,
     class_name |-> "", kwargs |-> 0]

\* Input.__init__
Input(id_, next_, shares, dataset, n_total_data, filters) ==
    [Block(id_, <<>>, next_, shares, "input") EXCEPT
        !.n_total_data = n_total_data, !.dataset = dataset, !.filters = filters,
        !.n_data = None, !.filter = NoFilter, !.uses = 1]

\* Augment.__init__
Augment(id_, prev, next_, shares, class_name, exe_prob, kwargs) ==
    [Block(id_, prev, next_, shares, "augmentation") EXCEPT
        !.class_name = class_name, !.int_exe_prob = exe_prob, !.kwargs = kwargs]

\* the inflation property: Block's is 1, Augment's is its augmentation's
inflation(block) ==
    IF block.category = "augmentation" THEN AugInflation(block.class_name) ELSE RInt(1)

\* the exception the constructors raise for a raw block dict ("" if none):
\* 1/sum(shares) in _normalize_shares, the assertion on the filters in
\* Input.__init__, the assertions of the int_exe_prob setter in Augment.__init__
InitError(c) ==
    IF c.shares # <<>> /\ RSum(c.shares) = RInt(0) THEN "ZeroDivisionError"
    ELSE IF c.type = "input" /\ c.filters # <<>> /\ Len(c.filters) # Len(c.shares)
    THEN "AssertionError"
    ELSE IF c.type = "augmentation"
            /\ ~ ((c.exe_float \/ c.exe_prob = RInt(1))
                  /\ RLe(RInt(0), c.exe_prob) /\ RLe(c.exe_prob, RInt(1)))
    THEN "AssertionError"
    ELSE ""

\* Blocks._dict_to_block followed by Block.update
update(c) ==
    IF c.type = "input"
    THEN Input(c.id, c.next, c.shares, c.dataset, c.n_total_data, c.filters)
    ELSE Augment(c.id, c.prev, c.next, c.shares, c.class_name, c.exe_prob, c.kwargs)

\* Block.mult_exe_prob
mult_exe_prob(block, mult) == [block EXCEPT !.ext_exe_prob = RMul(@, mult)]

\* Block.set (Augment does not override it)
BlockSet(block, index) ==
    LET b1 == IF ~ block.is_output
              THEN [block EXCEPT !.next = <<block.next[index + 1]>>] ELSE block
        b2 == [b1 EXCEPT !.share = block.shares[index + 1]]
    IN  [mult_exe_prob(b2, b2.share) EXCEPT !.is_set = TRUE]

\* Input.set: the share goes to Input's own private attribute, not to the one
\* Block.share reads, and the execution probability is not multiplied
InputSet(block, index) ==
    LET sh == block.shares[index + 1]
    IN  [block EXCEPT
            !.next = <<block.next[index + 1]>>,
            !.input_share = sh,
            !.filter = IF block.filters # <<>> THEN block.filters[index + 1] ELSE @,
            !.n_data = RMul(RInt(block.n_total_data), sh)]

\* the exception set(index) raises ("" if none)
SetError(block, index) ==
    IF ~ (0 <= index /\ index < block.variations) THEN "AssertionError"
    ELSE IF (block.category = "input" \/ ~ block.is_output) /\ index >= Len(block.next)
    THEN "IndexError"
    ELSE ""

set(block, index) ==
    IF block.category = "input" THEN InputSet(block, index) ELSE BlockSet(block, index)

\* Input.__eq__ and Augment.__eq__ (the augmentations compare their class and
\* their parameters)
BlockEq(a, b) ==
    /\ a.category = "augmentation"
    /\ b.category = "augmentation"
    /\ a.class_name = b.class_name /\ a.kwargs = b.kwargs
    /\ a.int_exe_prob = b.int_exe_prob
    /\ a.share = b.share

-----------------------------------------------------------------------------
(* core/agent/block.py: Blocks.build *)

\* Python's None where an id is expected
NoId == <<"none", 0>>

Range(s) == {s[i] : i \in 1..Len(s)}

\* Blocks._get_block_by_id: index of the first block with the id, 0 for None
_get_block_by_id(blocks_, id_) ==
    IF \E i \in 1..Len(blocks_) : blocks_[i].id = id_
    THEN CHOOSE i \in 1..Len(blocks_) :
            /\ blocks_[i].id = id_
            /\ \A j \in 1..(i - 1) : blocks_[j].id # id_
    ELSE 0

\* mutation of _get_duplicate_index: every block is taken to be unique
_get_duplicate_index_unique(blocks_, block) == 0

\* Blocks._is_unique and Blocks._get_duplicate_index: index of the first block
\* equal to the block, 0 if the block is unique
_get_duplicate_index(blocks_, block) ==
    IF \E i \in 1..Len(blocks_) : BlockEq(blocks_[i], block)
    THEN CHOOSE i \in 1..Len(blocks_) :
            /\ BlockEq(blocks_[i], block)
            /\ \A j \in 1..(i - 1) : ~ BlockEq(blocks_[j], block)
    ELSE 0

\* Blocks._get_input_blocks, _get_augment_blocks, _get_output_blocks (which
\* raises ValueError for an empty result)
_get_input_blocks(blocks_) == SelectSeq(blocks_, LAMBDA b : b.category = "input")
_get_augment_blocks(blocks_) == SelectSeq(blocks_, LAMBDA b : b.category = "augmentation")
_get_output_blocks(blocks_) == SelectSeq(blocks_, LAMBDA b : b.is_output)

\* mutation of OutputBlocksError: an empty result is returned as it is
OutputBlocksError_none(output_blocks) == ""

\* the exception _get_output_blocks raises for its result ("" if none)
OutputBlocksError(output_blocks) == IF output_blocks = <<>> THEN "ValueError" ELSE ""

\* mutation of _set_ipt_blocks_exe_prob: every input gets the same weight,
\* whatever the number of its items
_set_ipt_blocks_exe_prob_even(raw_blocks) ==
    [i \in 1..Len(raw_blocks) |->
        IF raw_blocks[i].category = "input"
        THEN mult_exe_prob(raw_blocks[i],
                           RDiv(RInt(1), RInt(Len(_get_input_blocks(raw_blocks)))))
        ELSE raw_blocks[i]]

\* Blocks._set_ipt_blocks_exe_prob, on the raw blocks (the Input objects of the
\* list are multiplied in place)
_set_ipt_blocks_exe_prob(raw_blocks) ==
    LET ipt == _get_input_blocks(raw_blocks)
        n_total_data == RSum([i \in 1..Len(ipt) |-> RInt(ipt[i].n_total_data)])
    IN  [i \in 1..Len(raw_blocks) |->
            IF raw_blocks[i].category = "input"
            THEN mult_exe_prob(raw_blocks[i], RDiv(RInt(raw_blocks[i].n_total_data), n_total_data))
            ELSE raw_blocks[i]]

\* Blocks._build_from_block. st = [blocks, pos, err]: Blocks.__blocks, the state
\* of the generator and the exception raised so far ("" if none)
RECURSIVE _build_from_block(_, _, _, _, _, _)
_build_from_block(st, sd, raw_block, raw_blocks, share_index, prev_block_id) ==
    IF st.err # "" THEN st
    ELSE
    LET copied == [raw_block EXCEPT !.id = new_id(sd, st.pos)]
        \* the recursion into the successor of the built block
        BuildNext(st2, wired, next_index) ==
            IF next_index # 0
            THEN _build_from_block(st2, sd, raw_blocks[next_index], raw_blocks, 0, wired.id)
            ELSE st2
        \* the built block is stored: a duplicate in place, a new block appended
        Store(st1, bl1, block_index, wired) ==
            BuildNext([st1 EXCEPT !.blocks = IF block_index # 0
                                             THEN [bl1 EXCEPT ![block_index] = wired]
                                             ELSE Append(bl1, wired)],
                      wired,
                      IF wired.next # <<>>
                      THEN _get_block_by_id(raw_blocks, wired.next[1]) ELSE 0)
        \* built_block.prev is set, or extended for a duplicate
        Wire(st1, bl1, block_index, built_block) ==
            Store(st1, bl1, block_index,
                  IF prev_block_id = NoId THEN built_block
                  ELSE IF block_index = 0
                  THEN [built_block EXCEPT !.prev = <<prev_block_id>>]
                  ELSE IF prev_block_id \notin Range(built_block.prev)
                  THEN [built_block EXCEPT !.prev = Append(@, prev_block_id)]
                  ELSE built_block)
        \* prev_block.next = [built_block.id]
        SetPrevNext(st1, set_block, block_index, bl1) ==
            Wire(st1, bl1, block_index,
                 IF block_index # 0 THEN bl1[block_index] ELSE set_block)
        Link(st1, set_block, block_index) ==
            SetPrevNext(st1, set_block, block_index,
                IF prev_block_id # NoId
                THEN [st1.blocks EXCEPT
                        ![_get_block_by_id(st1.blocks, prev_block_id)].next =
                            <<IF block_index # 0 THEN st1.blocks[block_index].id
                              ELSE set_block.id>>]
                ELSE st1.blocks)
        Dedup(st1, set_block) ==
            Link(st1, set_block, _get_duplicate_index(st1.blocks, set_block))
        \* the block is set once all its variations are built (st1)
        SetBlock(st1) ==
            IF st1.err # "" THEN st1
            ELSE IF SetError(copied, share_index) # ""
            THEN [st1 EXCEPT !.err = SetError(copied, share_index)]
            ELSE Dedup(st1, set(copied, share_index))
    IN  \* build all block variations first
        SetBlock(IF Len(copied.shares) > share_index + 1
                 THEN _build_from_block([st EXCEPT !.pos = @ + 1], sd, raw_block,
                                        raw_blocks, share_index + 1, prev_block_id)
                 ELSE [st EXCEPT !.pos = @ + 1])

\* Blocks._calc_ext_exe_probs for the block with the id. st = [blocks, pos, err]
RECURSIVE _calc_ext_exe_probs(_, _)
RECURSIVE CalcPrevBlocks(_, _, _)

\* the loop of _calc_ext_exe_probs over prev_blocks, from the k-th on
CalcPrevBlocks(st, prev, k) ==
    IF k > Len(prev) THEN st
    ELSE CalcPrevBlocks(_calc_ext_exe_probs(st, prev[k]), prev, k + 1)

_calc_ext_exe_probs(st, id_) ==
    IF st.err # "" THEN st
    ELSE
    LET \* the setters of prev_ext_exe_probs and of ext_exe_prob (which asserts
        \* 0 <= value <= 1)
        Assign(st1, i, prev_ext_exe_probs, value) ==
            IF ~ (RLe(RInt(0), value) /\ RLe(value, RInt(1)))
            THEN [st1 EXCEPT !.err = "AssertionError",
                             !.blocks[i].prev_ext_exe_probs = prev_ext_exe_probs]
            ELSE [st1 EXCEPT !.blocks[i].prev_ext_exe_probs = prev_ext_exe_probs,
                             !.blocks[i].ext_exe_prob = value]
        Multiply(st1, i, prev_ext_exe_probs) ==
            Assign(st1, i, prev_ext_exe_probs,
                   RMul(RSum(prev_ext_exe_probs), st1.blocks[i].ext_exe_prob))
        Collect(st1, i, prev) ==
            IF st1.err # "" THEN st1
            ELSE Multiply(st1, i,
                    [k \in 1..Len(prev) |->
                        st1.blocks[_get_block_by_id(st1.blocks, prev[k])].ext_exe_prob])
        Visit(i) ==
            IF st.blocks[i].is_input THEN st
            ELSE Collect(CalcPrevBlocks(st, st.blocks[i].prev, 1), i, st.blocks[i].prev)
    IN  Visit(_get_block_by_id(st.blocks, id_))

\* the first loop of build: _build_from_block for the raw input blocks from the k-th on
RECURSIVE BuildInputs(_, _, _, _)
BuildInputs(st, sd, raw_blocks, k) ==
    IF k > Len(raw_blocks) THEN st
    ELSE IF raw_blocks[k].category = "input"
    THEN BuildInputs(_build_from_block(st, sd, raw_blocks[k], raw_blocks, 0, NoId),
                     sd, raw_blocks, k + 1)
    ELSE BuildInputs(st, sd, raw_blocks, k + 1)

\* the second loop of build: over the output blocks found before the loop
RECURSIVE CalcOutputs(_, _, _)
CalcOutputs(st, output_ids, k) ==
    IF k > Len(output_ids) THEN st
    ELSE CalcOutputs(_calc_ext_exe_probs(st, output_ids[k]), output_ids, k + 1)

\* the first exception the constructors raise over the list ("" if none)
RECURSIVE FirstInitError(_, _)
FirstInitError(raw_block_list, k) ==
    IF k > Len(raw_block_list) THEN ""
    ELSE IF InitError(raw_block_list[k]) # "" THEN InitError(raw_block_list[k])
    ELSE FirstInitError(raw_block_list, k + 1)

\* Blocks.build, from an empty Blocks: [blocks, pos, err]
build(sd, pos, raw_block_list) ==
    LET st == [blocks |-> <<>>, pos |-> pos, err |-> ""]
        \* the second loop: _calc_ext_exe_probs for the output blocks
        Outputs(st1, outs) ==
            IF st1.err # "" THEN st1
            ELSE IF OutputBlocksError(outs) # ""
            THEN [st1 EXCEPT !.err = OutputBlocksError(outs)]
            ELSE CalcOutputs(st1, [k \in 1..Len(outs) |-> outs[k].id], 1)
        Built(st1) == Outputs(st1, _get_output_blocks(st1.blocks))
        Inputs(made, ipt) ==
            IF ipt # <<>> /\ RSum([i \in 1..Len(ipt) |-> RInt(ipt[i].n_total_data)]) = RInt(0)
            THEN [st EXCEPT !.err = "ZeroDivisionError"]
            ELSE Built(BuildInputs(st, sd, _set_ipt_blocks_exe_prob(made), 1))
        Made(made) == Inputs(made, _get_input_blocks(made))
        Checked(init_err) ==
            IF init_err # "" THEN [st EXCEPT !.err = init_err]
            ELSE Made([i \in 1..Len(raw_block_list) |-> update(raw_block_list[i])])
    IN  Checked(FirstInitError(raw_block_list, 1))

-----------------------------------------------------------------------------
(* core/agent/block.py: Blocks.fetch_path and Blocks.root *)

\* Block.reset and Input.reset: Input's sets its own private list and its uses
reset(block) ==
    IF block.category = "input"
    THEN [block EXCEPT !.uses = 0]
    ELSE [block EXCEPT !.input_image_ids = <<>>]

\* Blocks.reset
BlocksReset(blocks_) == [i \in 1..Len(blocks_) |-> reset(blocks_[i])]

\* mutation of add_use: the use is not counted
add_use_uncounted(block) == block

\* Input.add_use
add_use(block) == [block EXCEPT !.uses = @ + 1]

\* the probability list root hands to fetch_by_prob_list for the block's prev
PrevProbabilities(block) ==
    [index \in 1..Len(block.prev_ext_exe_probs) |->
        RDiv(block.prev_ext_exe_probs[index], RSum(block.prev_ext_exe_probs))]

\* keys of the dict a.update(b) leaves: a's, then b's new ones
DictUpdate(a, b) == a \o SelectSeq(b, LAMBDA k : k \notin Range(a))

\* Blocks.root. st = [blocks, pos, err, keys]; keys are the keys of the returned
\* dict, in its order (its values are the blocks of Blocks.__blocks themselves)
RECURSIVE root(_, _, _)
RECURSIVE RootVariants(_, _, _, _)
RECURSIVE RootAddUses(_, _, _)

\* the inner loop of root over the items of a variant's dict, from the k-th on
RootAddUses(st, variant_keys, k) ==
    IF k > Len(variant_keys) \/ st.err # "" THEN st
    ELSE
    LET id_ == variant_keys[k]
        i == _get_block_by_id(st.blocks, id_)
        st1 == IF id_ \in Range(st.keys) THEN st ELSE [st EXCEPT !.keys = Append(@, id_)]
        st2 == IF ~ st1.blocks[i].is_input THEN st1
               ELSE IF st1.blocks[i].category # "input"
               THEN [st1 EXCEPT !.err = "AttributeError"]
               ELSE [st1 EXCEPT !.blocks[i] = add_use(@)]
    IN  RootAddUses(st2, variant_keys, k + 1)

\* the loop of root over the variants of an inflationary block, n of them left
RootVariants(st, sd, id_, n) ==
    IF n = 0 \/ st.err # "" THEN st
    ELSE
    LET \* blocks.update(variant), add_use for the inputs of the variant
        Merge(sub) == RootAddUses([sub EXCEPT !.keys = st.keys], sub.keys, 1)
        Variant(block) ==
            IF RSum(block.prev_ext_exe_probs) = RInt(0)
            THEN [st EXCEPT !.err = "ZeroDivisionError"]
            ELSE Merge(root([st EXCEPT !.pos = @ + 1, !.keys = <<>>], sd,
                            fetch_by_prob_list(block.prev, PrevProbabilities(block),
                                               get_random(sd, st.pos))))
    IN  RootVariants(Variant(st.blocks[_get_block_by_id(st.blocks, id_)]), sd, id_, n - 1)

root(st, sd, id_) ==
    LET \* blocks.update(self.root(chosen_block_id))
        Merge(sub) == [sub EXCEPT !.keys = DictUpdate(<<id_>>, sub.keys)]
        Visit(block, infl) ==
            IF block.is_input THEN [st EXCEPT !.keys = <<id_>>]
            ELSE IF RLt(infl, RInt(1))
            THEN RootVariants([st EXCEPT !.keys = <<id_>>], sd, id_,
                              RRound(RDiv(RInt(1), infl)))
            ELSE IF RSum(block.prev_ext_exe_probs) = RInt(0)
            THEN [st EXCEPT !.keys = <<id_>>, !.err = "ZeroDivisionError"]
            ELSE Merge(root([st EXCEPT !.pos = @ + 1, !.keys = <<>>], sd,
                            fetch_by_prob_list(block.prev, PrevProbabilities(block),
                                               get_random(sd, st.pos))))
        Block_(block) == Visit(block, inflation(block))
    IN  IF st.err # "" THEN st
        ELSE Block_(st.blocks[_get_block_by_id(st.blocks, id_)])

\* Python's None where a path is expected
NoPath == [inputs |-> <<>>, augmentations |-> <<>>, none |-> TRUE]

\* Blocks.fetch_path: [blocks, pos, err, keys, path]; the path holds the blocks
\* themselves, as they are when fetch_path returns
fetch_path(blocks_, sd, pos) ==
    LET \* the blocks of the dict root returned, split into inputs and augmentations
        Split(r, path_blocks) ==
            [r EXCEPT !.path = [inputs |-> _get_input_blocks(path_blocks),
                                augmentations |-> _get_augment_blocks(path_blocks),
                                none |-> FALSE]]
        Rooted(r) ==
            Split(r, [k \in 1..Len(r.keys) |->
                        r.blocks[_get_block_by_id(r.blocks, r.keys[k])]])
        Sample(st, output_blocks) ==
            IF OutputBlocksError(output_blocks) # ""
            THEN [st EXCEPT !.err = OutputBlocksError(output_blocks)]
            \* fetch_by_prob_list returns value_list[-1] when no value is drawn
            ELSE IF output_blocks = <<>>
            THEN [st EXCEPT !.pos = @ + 1, !.err = "IndexError"]
            ELSE Rooted(root([st EXCEPT !.pos = @ + 1], sd,
                            fetch_by_prob_list(output_blocks,
                                [i \in 1..Len(output_blocks) |-> output_blocks[i].ext_exe_prob],
                                get_random(sd, pos)).id))
        Reset(st) == Sample(st, _get_output_blocks(st.blocks))
    IN  Reset([blocks |-> BlocksReset(blocks_), pos |-> pos, err |-> "", keys |-> <<>>,
               path |-> NoPath])

-----------------------------------------------------------------------------
(* core/data/data.py (Dataset.fetch) and the augmentations' apply *)

\* the image or the annotations of the i-th data package of a dataset
Item(kind, dataset, i) == [op |-> kind, ds |-> dataset, idx |-> i, args |-> <<>>]

\* DataPackage.data
DataPackageData(dataset, i) == [img |-> Item("image", dataset, i), ann |-> Item("annotations", dataset, i)]

\* what a transformation makes of its arguments
Term(name, kwargs, args) == [op |-> name, ds |-> "", idx |-> kwargs, args |-> args]

\* Dataset.fetch(filter_), for filter_ None or a filter id: [val, pos, err].
\* The second draw is made only if a background percentage is configured
DatasetFetch(dataset, filter_, sd, pos) ==
    LET d == Datasets[dataset]
        rand == get_random(sd, pos)
        with_bg == d.background_percentage # None
        is_bg == with_bg /\ RLt(get_random(sd, pos + 1), d.background_percentage)
        pos1 == IF with_bg THEN pos + 2 ELSE pos + 1
        indexes == IF is_bg THEN d.background_indexes
                   ELSE IF filter_ = NoFilter THEN [i \in 1..d.n |-> i - 1]
                   ELSE d.filter_indexes[filter_]
        k == fetch_by_prob_index(Len(indexes), rand)
    IN  IF k >= Len(indexes)
        THEN [val |-> DataPackageData(dataset, 0), pos |-> pos1, err |-> "IndexError"]
        ELSE [val |-> DataPackageData(dataset, indexes[k + 1]), pos |-> pos1, err |-> ""]

\* Augment.execute: the augmentation's apply on the images and the annotations
execute(block, images, annotations) ==
    [img |-> Term(block.class_name, block.kwargs, images),
     ann |-> Term(block.class_name, block.kwargs, annotations)]

\* transpose_image
transpose_image(image) == Term("transpose", 0, <<image>>)

-----------------------------------------------------------------------------
(* core/agent/executor.py: Executor *)

DATA_OUTPUT == <<"output", 0>>

Put(d, k, v) == [x \in (DOMAIN d) \cup {k} |-> IF x = k THEN v ELSE d[x]]
Del(d, k) == [x \in (DOMAIN d) \ {k} |-> d[x]]
EmptyData == [x \in {} |-> 0]

\* an entry of the history of a fetch() call
Event(ev, block_id, data_id, vals) == [ev |-> ev, block |-> block_id, d |-> data_id, vals |-> vals]

\* index of the block with the id among the path's augmentations, 0 if none
PathAugIndex(path_, id_) == _get_block_by_id(path_.augmentations, id_)

\* Executor._exec_input_block. ex = [data, path, pos, err, log]
_exec_input_block(ex, block, data_id, new_data_id) ==
    IF block.category # "input" THEN [ex EXCEPT !.err = "AssertionError"]
    ELSE [ex EXCEPT !.data = Del(Put(ex.data, new_data_id, ex.data[data_id]), data_id)]

\* mutation of _exec_inflationary_block: the pending list is kept after apply
_exec_inflationary_block_unreset(ex, i, data_id, new_data_id) ==
    LET \* the data of the pending ids is replaced by the augmentation's output
        Close(block, ids, data_list, d1) ==
            [ex EXCEPT !.data = [x \in (DOMAIN d1) \ Range(ids) |-> d1[x]],
                       !.path.augmentations[i].input_image_ids = ids,
                       !.log = Append(@, Event("apply", block.id, new_data_id, data_list))]
        Apply(block, ids, data_list) ==
            Close(block, ids, data_list,
                  Put(ex.data, new_data_id,
                      execute(block, [k \in 1..Len(ids) |-> data_list[k].img],
                                     [k \in 1..Len(ids) |-> data_list[k].ann])))
        Pending(block, ids) ==
            IF Len(ids) = RRound(RDiv(RInt(1), inflation(block)))
            THEN Apply(block, ids, [k \in 1..Len(ids) |-> ex.data[ids[k]]])
            ELSE [ex EXCEPT !.path.augmentations[i].input_image_ids = ids]
        Block_(block) == Pending(block, Append(block.input_image_ids, data_id))
    IN  Block_(ex.path.augmentations[i])

\* Executor._exec_inflationary_block, for the i-th augmentation of the path
_exec_inflationary_block(ex, i, data_id, new_data_id) ==
    LET \* the data of the pending ids is replaced by the augmentation's output
        Close(block, ids, data_list, d1) ==
            [ex EXCEPT !.data = [x \in (DOMAIN d1) \ Range(ids) |-> d1[x]],
                       !.path.augmentations[i].input_image_ids = <<>>,
                       !.log = Append(@, Event("apply", block.id, new_data_id, data_list))]
        Apply(block, ids, data_list) ==
            Close(block, ids, data_list,
                  Put(ex.data, new_data_id,
                      execute(block, [k \in 1..Len(ids) |-> data_list[k].img],
                                     [k \in 1..Len(ids) |-> data_list[k].ann])))
        Pending(block, ids) ==
            IF Len(ids) = RRound(RDiv(RInt(1), inflation(block)))
            THEN Apply(block, ids, [k \in 1..Len(ids) |-> ex.data[ids[k]]])
            ELSE [ex EXCEPT !.path.augmentations[i].input_image_ids = ids]
        Block_(block) == Pending(block, Append(block.input_image_ids, data_id))
    IN  Block_(ex.path.augmentations[i])

\* Executor._exec_augment_block, for the i-th augmentation of the path
_exec_augment_block(ex, sd, i, data_id, new_data_id) ==
    LET Block_(block, ex1) ==
            IF is_executed(block.int_exe_prob, sd, ex.pos)
            THEN IF RLt(inflation(block), RInt(1))
                 THEN _exec_inflationary_block(ex1, i, data_id, new_data_id)
                 ELSE [ex1 EXCEPT
                        !.data = Del(Put(ex.data, new_data_id,
                                         execute(block, <<ex.data[data_id].img>>,
                                                        <<ex.data[data_id].ann>>)),
                                     data_id),
                        !.log = Append(@, Event("apply", block.id, new_data_id,
                                                <<ex.data[data_id]>>))]
            ELSE [ex1 EXCEPT !.data = Del(Put(ex.data, new_data_id, ex.data[data_id]), data_id)]
    IN  Block_(ex.path.augmentations[i], [ex EXCEPT !.pos = @ + 1])

\* Executor._propagate for a block: kind "input" (the i-th block of the list
\* _execute_path loops over) or "augmentation" (the i-th augmentation of
\* self.__path). ex = [data, path, inputs, pos, err, log]
RECURSIVE _propagate(_, _, _, _, _)
_propagate(ex, sd, kind, i, data_id) ==
    LET new_data_id == new_id(sd, ex.pos)
        Forward(ex1, next_index) ==
            IF ex1.path.none THEN [ex1 EXCEPT !.err = "TypeError"]
            ELSE IF next_index = 0 THEN [ex1 EXCEPT !.err = "KeyError"]
            ELSE _propagate(ex1, sd, "augmentation", next_index, new_data_id)
        \* after the block is executed: wait, record the output, or go on
        Executed(ex1, block) ==
            IF ex1.err # "" THEN ex1
            ELSE IF ~ block.is_input /\ RLt(inflation(block), RInt(1))
                    /\ Len(block.input_image_ids) # 0
            THEN ex1
            ELSE IF block.is_output
            THEN [ex1 EXCEPT !.data = Put(ex1.data, DATA_OUTPUT, ex1.data[new_data_id]),
                             !.log = Append(@, Event("output", block.id, new_data_id, <<>>))]
            ELSE Forward(ex1, PathAugIndex(ex1.path, block.next[1]))
        Result(ex1) ==
            Executed(ex1, IF kind = "input" THEN ex1.inputs[i]
                          ELSE ex1.path.augmentations[i])
        Execute(ex0, before) ==
            Result(IF before.is_input
                   THEN _exec_input_block(ex0, before, data_id, new_data_id)
                   ELSE _exec_augment_block(ex0, sd, i, data_id, new_data_id))
        Block_(before) ==
            Execute([ex EXCEPT !.pos = @ + 1,
                               !.log = Append(@, Event("propagate", before.id, data_id, <<>>))],
                    before)
    IN  Block_(IF kind = "input" THEN ex.inputs[i] ELSE ex.path.augmentations[i])

\* mutation of _reset: what self.__data and self.__path hold is kept
_reset_kept(data_, path_) == [data |-> data_, path |-> path_]

\* Executor._reset: what self.__data and self.__path are set to
_reset(data_, path_) == [data |-> EmptyData, path |-> NoPath]

\* one pass of the inner loop of Executor._execute_path, for the i-th input of
\* the path: a new data id, a draw from the dataset, the propagation
ExecutePathStep(ex, sd, i) ==
    LET Fetched(input_block, data_id, got) ==
            IF got.err # ""
            THEN [ex EXCEPT !.pos = got.pos, !.err = got.err]
            ELSE _propagate([ex EXCEPT !.pos = got.pos,
                                       !.data = Put(ex.data, data_id, got.val),
                                       !.log = Append(@, Event("fetch", input_block.id,
                                                               data_id, <<got.val>>))],
                            sd, "input", i, data_id)
        Block_(input_block) ==
            IF input_block.dataset \notin DOMAIN Datasets
            THEN [ex EXCEPT !.pos = @ + 1, !.err = "KeyError"]
            ELSE Fetched(input_block, new_id(sd, ex.pos),
                         DatasetFetch(input_block.dataset, NoFilter, sd, ex.pos + 1))
    IN  Block_(ex.inputs[i])

-----------------------------------------------------------------------------------------------------------------------------------------------------
(* The state machine: the Agent is constructed (Executor.__init__ builds the
   blocks), then fetch() is called again and again, one call at a time. A
   second Agent may then be constructed for the same workflow and seed *)

Seeds == [1..TapePeriod -> 0..(RandLevels - 1)]

\* what the caller holds before any fetch() has returned
NoResult == [img |-> Term("none", 0, <<>>), ann |-> Term("none", 0, <<>>)]

\* what the Agent of the first run did, before a second one is constructed
NoRun == [built |-> <<>>, outcome |-> "none", trace |-> <<>>]

\* the next pass of the loops of _execute_path at or after the u-th use of the
\* i-th input of the path; <<Len(inputs) + 1, 0>> when the loops are over
RECURSIVE NextCursor(_, _, _)
NextCursor(inputs_, i, u) ==
    IF i > Len(inputs_) THEN <<i, 0>>
    ELSE IF u < inputs_[i].uses THEN <<i, u>>
    ELSE NextCursor(inputs_, i + 1, 0)

\* what a fetch() call that has ended leaves to compare: how it ended, what the
\* caller holds, the path it executed, what it did, the state of the generator
Ended(outcome_, result_, path_, hist_, gen_) ==
    [outcome |-> outcome_, result |-> result_, path |-> path_, hist |-> hist_,
     gen |-> gen_]

\* a thread that has not called fetch() yet
Waiting ==
    [pc |-> "idle", inputs |-> <<>>, cursor |-> <<1, 0>>, outcome |-> "none",
     result |-> NoResult, hist |-> <<>>, data |-> EmptyData, path |-> NoPath]

Init ==
    /\ wf \in 1..Len(Workflows)
    /\ seed \in Seeds
    /\ gen = 0
    /\ pc = "new"
    /\ blocks = <<>>
    /\ data = EmptyData
    /\ path = NoPath
    /\ inputs = <<>>
    /\ cursor = <<1, 0>>
    /\ nfetch = 0
    /\ outcome = "none"
    /\ result = NoResult
    /\ built = <<>>
    /\ hist = <<>>
    /\ trace = <<>>
    /\ run = 1
    /\ ambient = 0
    /\ first = NoRun
    /\ who = 1
    /\ other = Waiting

\* Executor.__init__: Blocks.build on the workflow's raw block list
Build ==
    /\ pc = "new"
    /\ LET Built(r) ==
            /\ gen' = r.pos
            /\ pc' = IF r.err = "" THEN "idle" ELSE "build_error"
            /\ outcome' = IF r.err = "" THEN "none" ELSE r.err
            /\ blocks' = IF r.err = "" THEN r.blocks ELSE <<>>
            /\ built' = blocks'
       IN  Built(build(seed, gen, Workflows[wf]))
    /\ UNCHANGED <<wf, seed, data, path, inputs, cursor, nfetch, result, hist, trace,
                   run, ambient, first, who, other>>

\* Executor.fetch up to the call of _execute_path: _reset, Blocks.fetch_path,
\* the deep copy of the path
Fetch ==
    /\ pc = "idle"
    /\ nfetch < MaxFetches
    /\ nfetch' = nfetch + 1
    /\ data' = _reset(data, path).data
    /\ hist' = <<>>
    /\ LET Sampled(r) ==
            /\ gen' = r.pos
            /\ blocks' = r.blocks
            /\ IF r.err = ""
               THEN /\ path' = r.path
                    /\ inputs' = r.path.inputs
                    /\ cursor' = NextCursor(r.path.inputs, 1, 0)
                    /\ pc' = "exec"
                    /\ outcome' = "running"
                    /\ trace' = trace
               ELSE /\ path' = _reset(data, path).path
                    /\ inputs' = <<>>
                    /\ cursor' = <<1, 0>>
                    /\ pc' = "idle"
                    /\ outcome' = r.err
                    /\ trace' = Append(trace, Ended(r.err, result, NoPath, <<>>, r.pos))
       IN  Sampled(fetch_path(blocks, seed, gen))
    /\ UNCHANGED <<wf, seed, result, built, run, ambient, first, who, other>>

\* one pass of the inner loop of Executor._execute_path
ExecutePath ==
    /\ pc = "exec"
    /\ cursor[1] <= Len(inputs)
    /\ LET Stepped(r) ==
            /\ gen' = r.pos
            /\ data' = r.data
            /\ path' = r.path
            /\ hist' = r.log
            /\ IF r.err = ""
               THEN /\ cursor' = NextCursor(inputs, cursor[1], cursor[2] + 1)
                    /\ pc' = "exec"
                    /\ outcome' = outcome
                    /\ trace' = trace
               ELSE /\ cursor' = cursor
                    /\ pc' = "idle"
                    /\ outcome' = r.err
                    /\ trace' = Append(trace, Ended(r.err, result, r.path, r.log, r.pos))
       IN  Stepped(ExecutePathStep([data |-> data, path |-> path, inputs |-> inputs,
                                    pos |-> gen, err |-> "", log |-> hist],
                                   seed, cursor[1]))
    /\ UNCHANGED <<wf, seed, blocks, inputs, nfetch, result, built, run, ambient, first,
                   who, other>>

\* the return of _execute_path and of fetch: self.__data[DATA_OUTPUT], the
\* image transposed
Return ==
    /\ pc = "exec"
    /\ cursor[1] > Len(inputs)
    /\ pc' = "idle"
    /\ IF DATA_OUTPUT \in DOMAIN data
       THEN /\ outcome' = "ok"
            /\ result' = [img |-> transpose_image(data[DATA_OUTPUT].img),
                          ann |-> data[DATA_OUTPUT].ann]
       ELSE /\ outcome' = "KeyError"
            /\ result' = result
    /\ trace' = Append(trace, Ended(outcome', result', path, hist, gen))
    /\ UNCHANGED <<wf, seed, gen, blocks, data, path, inputs, cursor, nfetch, built,
                   hist, run, ambient, first, who, other>>

Next == Build \/ Fetch \/ ExecutePath \/ Return

Spec == Init /\ [][Next]_vars

\* Agent.__init__ once more, in a second process: the same workflow file, the
\* same seed and datasets, a new generator from the seed; whatever lies outside
\* the generator (the state of the interpreter's own random module, which
\* get_seed reads) is in any state
Rerun ==
    /\ run = 1
    /\ pc \in {"idle", "build_error"}
    /\ pc = "idle" => nfetch = MaxFetches
    /\ first' = [built |-> built, outcome |-> IF pc = "build_error" THEN outcome ELSE "none",
                 trace |-> trace]
    /\ run' = 2
    /\ ambient' \in 0..(AmbientStates - 1)
    /\ gen' = 0
    /\ pc' = "new"
    /\ blocks' = <<>>
    /\ data' = EmptyData
    /\ path' = NoPath
    /\ inputs' = <<>>
    /\ cursor' = <<1, 0>>
    /\ nfetch' = 0
    /\ outcome' = "none"
    /\ result' = NoResult
    /\ built' = <<>>
    /\ hist' = <<>>
    /\ trace' = <<>>
    /\ UNCHANGED <<wf, seed, who, other>>

NextTwice == Build \/ Fetch \/ ExecutePath \/ Return \/ Rerun

\* two runs of the program, one after the other, from the same seed
SpecTwice == Init /\ [][NextTwice]_vars

\* Two threads call fetch() of the one Executor. The interpreter switches from
\* the running thread to the other one between two steps: between two calls,
\* after Executor.fetch has stored the path, or between two passes of the
\* loop of _execute_path. The thread switched out keeps its position and its
\* locals; other.data and other.path record what self.__data and self.__path
\* held when it was switched out
Switch ==
    /\ pc \in {"idle", "exec"}
    /\ who' = 3 - who
    /\ other' = [pc |-> pc, inputs |-> inputs, cursor |-> cursor, outcome |-> outcome,
                 result |-> result, hist |-> hist, data |-> data, path |-> path]
    /\ pc' = other.pc
    /\ inputs' = other.inputs
    /\ cursor' = other.cursor
    /\ outcome' = other.outcome
    /\ result' = other.result
    /\ hist' = other.hist
    /\ UNCHANGED <<wf, seed, gen, blocks, data, path, nfetch, built, trace, run,
                   ambient, first>>

NextInterleaved == Build \/ Fetch \/ ExecutePath \/ Return \/ Switch

\* the two-thread runs start from the workflows 1..MaxInterleavedWf
InitInterleaved == Init /\ wf <= MaxInterleavedWf

\* fetch() calls of two threads on the same Executor, their steps interleaved
SpecInterleaved == InitInterleaved /\ [][NextInterleaved]_vars

-----------------------------------------------------------------------------
(* What the properties below observe *)

\* the events of a kind in the history of the running (or last) fetch() call
Events(ev) == SelectSeq(hist, LAMBDA e : e.ev = ev)

\* the events of a kind at the block with the id
EventsAt(ev, id_) == SelectSeq(hist, LAMBDA e : e.ev = ev /\ e.block = id_)

\* a fetch() call was made and has ended, by a return or by an exception
FetchEnded == pc = "idle" /\ nfetch > 0

\* the blocks are compiled
Compiled == pc \in {"idle", "exec"}

\* the samples the dataset draws of the fetch() call produced, in their order
Drawn == [k \in 1..Len(Events("fetch")) |-> Events("fetch")[k].vals[1]]

-----------------------------------------------------------------------------
(* Scenario A *)

\* C1: for one Source feeding one Transform with fan_in 1 and fire probability 1
\* that leads to the sink (workflow 1), every fetch() draws exactly one sample
\* from the Source's dataset, calls the Transform's apply exactly once, on that
\* sample, and returns what apply produced.
C1_FetchAlwaysApplies ==
    (wf = 1 /\ FetchEnded) =>
        /\ outcome = "ok"
        /\ Len(Events("fetch")) = 1
        /\ Len(Events("apply")) = 1
        /\ Events("apply")[1].vals = Drawn
        /\ result.ann = execute(blocks[2], <<Drawn[1].img>>, <<Drawn[1].ann>>).ann

-----------------------------------------------------------------------------
(* Scenario C *)

\* C2: for one Source feeding a confluent Transform with fan_in 0.25 and fire
\* probability 1 that leads to the sink (workflow 2), each fetch() calls the
\* Source's Dataset.fetch exactly 4 times and the Transform's apply exactly
\* once, on the list of the 4 samples drawn.
C2_FourDrawsOneApply ==
    (wf = 2 /\ Compiled /\ nfetch > 0) =>
        /\ Len(Events("fetch")) <= 4
        /\ Len(Events("apply")) <= 1
        /\ FetchEnded =>
            /\ outcome = "ok"
            /\ Len(Events("fetch")) = 4
            /\ Len(Events("apply")) = 1
            /\ Len(Events("apply")[1].vals) = 4
            /\ Events("apply")[1].vals = Drawn

\* C2, the case: a second fetch() of workflow 2 has returned, after one apply
C2_Witness ==
    /\ wf = 2
    /\ FetchEnded
    /\ nfetch = 2
    /\ outcome = "ok"
    /\ Len(Events("apply")) = 1
    /\ Len(Events("fetch")) = 4

-----------------------------------------------------------------------------
(* Confluence threshold *)

\* C3: within one fetch, a confluent Transform with fan_in 0.25 calls apply only
\* on 4 buffered samples, and after the 1st, 2nd and 3rd propagation into it the
\* scheduler is waiting: apply was not called, nothing went downstream, no
\* final result is recorded, and the propagation returned without an error.
C3_WaitsBelowThreshold ==
    \A i \in 1..Len(path.augmentations) :
        (inflation(path.augmentations[i]) = R(1, 4)) =>
            /\ \A k \in 1..Len(EventsAt("apply", path.augmentations[i].id)) :
                    Len(EventsAt("apply", path.augmentations[i].id)[k].vals) = 4
            /\ Len(EventsAt("propagate", path.augmentations[i].id)) \in 1..3 =>
                    /\ outcome = "running"
                    /\ EventsAt("apply", path.augmentations[i].id) = <<>>
                    /\ Events("output") = <<>>
                    /\ DATA_OUTPUT \notin DOMAIN data
                    /\ \A n \in Range(path.augmentations[i].next) :
                            EventsAt("propagate", n) = <<>>

-----------------------------------------------------------------------------
(* Scenario D *)

\* C4: for Source -> Transform (fan_in 1, fire probability 0) -> sink (workflow
\* 4, and workflow 10 where the 0 is written as an integer), the workflow
\* compiles, a fetch() never calls the Transform's apply, and the annotations
\* it returns are the ones the Source's dataset draw produced.
C4_SkipReturnsSourceAnnotations ==
    (wf \in {4, 10}) =>
        /\ pc # "build_error"
        /\ Events("apply") = <<>>
        /\ FetchEnded =>
            /\ outcome = "ok"
            /\ Len(Events("fetch")) = 1
            /\ result.ann = Drawn[1].ann

-----------------------------------------------------------------------------
(* Scenario B and the weights of the Sources *)

\* the compiled instances of the n-th block of the workflow file
InstancesOf(n) == {i \in 1..Len(blocks) : blocks[i].raw = RawId(n)}

\* the number of items of all Sources of the workflow file
AllItems ==
    RSum([k \in 1..Len(_get_input_blocks([j \in 1..Len(Workflows[wf]) |->
                                            update(Workflows[wf][j])])) |->
            RInt(_get_input_blocks([j \in 1..Len(Workflows[wf]) |->
                                        update(Workflows[wf][j])])[k].n_total_data)])

\* C5: for two Sources with 100 and 300 items feeding one Transform and then
\* the sink (workflow 5), every sampled path contains exactly one of the two
\* Sources, the one the predecessor draw at the Transform selects with the
\* weights 1/4 (Source 1) and 3/4 (Source 2); in every workflow a Source with
\* n items has the weight n / (the items of all Sources).
C5_SourceWeightByItems ==
    Compiled =>
        /\ \A i \in 1..Len(blocks) :
                blocks[i].category = "input" =>
                    blocks[i].ext_exe_prob = RDiv(RInt(blocks[i].n_total_data), AllItems)
        /\ wf = 5 =>
            \A t \in InstancesOf(3) :
                /\ [k \in 1..Len(blocks[t].prev) |->
                        blocks[_get_block_by_id(blocks, blocks[t].prev[k])].raw]
                        = <<RawId(1), RawId(2)>>
                /\ PrevProbabilities(blocks[t]) = <<R(1, 4), R(3, 4)>>
        /\ (wf = 5 /\ pc = "exec") =>
                /\ Len(path.inputs) = 1
                /\ path.inputs[1].raw = RawId(1) <=> RLt(get_random(seed, gen - 1), R(1, 4))
                /\ path.inputs[1].raw = RawId(2) <=> ~ RLt(get_random(seed, gen - 1), R(1, 4))

\* C5, the case: a path of workflow 5 was sampled and holds Source 2
C5_Witness ==
    /\ wf = 5
    /\ pc = "exec"
    /\ Len(path.inputs) = 1
    /\ path.inputs[1].raw = RawId(2)
    /\ path.inputs[1].n_total_data = 300

-----------------------------------------------------------------------------
(* Deduplication *)

\* C6: compiling a workflow in which two Sources of equal weight both name the
\* same Transform as their next (workflow 6) yields exactly one instance of the
\* Transform; its prev holds the two Source instances, each once, both Sources'
\* next point to it, and its ext_exe_prob is the sum of the two Sources'
\* (1/2 + 1/2) times its share.
C6_SharedTransformCompiledOnce ==
    (wf = 6 /\ Compiled) =>
        /\ Cardinality(InstancesOf(1)) = 1
        /\ Cardinality(InstancesOf(2)) = 1
        /\ Cardinality(InstancesOf(3)) = 1
        /\ \A s1 \in InstancesOf(1), s2 \in InstancesOf(2), t \in InstancesOf(3) :
                /\ blocks[t].prev = <<blocks[s1].id, blocks[s2].id>>
                /\ blocks[s1].id # blocks[s2].id
                /\ blocks[s1].next = <<blocks[t].id>>
                /\ blocks[s2].next = <<blocks[t].id>>
                /\ blocks[s1].ext_exe_prob = R(1, 2)
                /\ blocks[s2].ext_exe_prob = R(1, 2)
                /\ blocks[t].ext_exe_prob =
                        RMul(RAdd(blocks[s1].ext_exe_prob, blocks[s2].ext_exe_prob),
                             blocks[t].share)
                /\ blocks[t].ext_exe_prob = RInt(1)

\* C6, the case: workflow 6 is compiled, into three blocks
C6_Witness ==
    /\ wf = 6
    /\ pc = "idle"
    /\ nfetch = 0
    /\ Len(blocks) = 3
    /\ Cardinality(InstancesOf(3)) = 1

-----------------------------------------------------------------------------
(* Shares and reach probabilities *)

\* C7: for every operator with more than one branch, the shares sum to 1 after
\* construction and after compilation: each stored share is the raw weight
\* divided by the raw sum.
C7_SharesSumToOne ==
    Compiled =>
        /\ \A k \in 1..Len(Workflows[wf]) :
                Len(Workflows[wf][k].shares) > 1 =>
                    /\ RSum(update(Workflows[wf][k]).shares) = RInt(1)
                    /\ \A j \in 1..Len(Workflows[wf][k].shares) :
                            update(Workflows[wf][k]).shares[j] =
                                RDiv(Workflows[wf][k].shares[j],
                                     RSum(Workflows[wf][k].shares))
        /\ \A i \in 1..Len(blocks) :
                blocks[i].variations > 1 => RSum(blocks[i].shares) = RInt(1)

\* C8: after build, the ext_exe_prob of the compiled Source instances, each
\* weighted by its uses, sum to 1: a Source with several branches contributes
\* its data weight once in total.
C8_SourceInstancesSumToOne ==
    (pc = "idle" /\ nfetch = 0) =>
        RSum([k \in 1..Len(_get_input_blocks(blocks)) |->
                RMul(_get_input_blocks(blocks)[k].ext_exe_prob,
                     RInt(_get_input_blocks(blocks)[k].uses))]) = RInt(1)

-----------------------------------------------------------------------------
(* Determinism *)

-----------------------------------------------------------------------------
(* The compiled graph during a fetch *)

\* what C10 says a fetch() leaves alone, for each compiled block
GraphFrame ==
    [i \in 1..Len(blocks) |->
        [prev |-> blocks[i].prev, next |-> blocks[i].next, share |-> blocks[i].share,
         ext_exe_prob |-> blocks[i].ext_exe_prob, uses |-> blocks[i].uses,
         input_image_ids |-> blocks[i].input_image_ids]]

\* C10: no step of a fetch() changes a compiled block's prev, next, share,
\* ext_exe_prob, uses or pending input list.
C10_FetchLeavesGraphUnchanged ==
    [][Compiled => GraphFrame' = GraphFrame]_vars

-----------------------------------------------------------------------------
(* Two threads calling fetch() *)

\* the samples the dataset draws of a fetch() call produced, from its history
DrawnIn(hist_) ==
    [k \in 1..Len(SelectSeq(hist_, LAMBDA e : e.ev = "fetch")) |->
        SelectSeq(hist_, LAMBDA e : e.ev = "fetch")[k].vals[1]]

\* C11: two fetch() calls on the same compiled blocks and Executor whose
\* steps interleave do not interfere. While a call is switched out in the
\* middle of its work, no step of the other call clears or overwrites its
\* path or an entry of its data; so each call ends as it would alone: for
\* Source -> Mosaic (workflow 2), with one apply on the 4 samples it drew.
C11_InterleavedCallsDoNotInterfere ==
    /\ other.pc = "exec" =>
            /\ path = other.path
            /\ \A k \in DOMAIN other.data : k \in DOMAIN data /\ data[k] = other.data[k]
    /\ wf = 2 =>
            \A k \in 1..Len(trace) :
                /\ trace[k].outcome = "ok"
                /\ Len(SelectSeq(trace[k].hist, LAMBDA e : e.ev = "apply")) = 1
                /\ SelectSeq(trace[k].hist, LAMBDA e : e.ev = "apply")[1].vals
                        = DrawnIn(trace[k].hist)

-----------------------------------------------------------------------------
(* The links of the compiled blocks *)

\* C12: after build, for every compiled block X that is not a Source and every
\* id P in X.prev, P is the id of a compiled block and X's id is in that
\* block's next, also when the raw successor of P has several branches
\* (workflows 12 and 21).
C12_PrevIsInNextOfPrev ==
    Compiled =>
        \A x \in 1..Len(blocks) :
            blocks[x].category # "input" =>
                \A p \in Range(blocks[x].prev) :
                    /\ _get_block_by_id(blocks, p) # 0
                    /\ blocks[x].id \in Range(blocks[_get_block_by_id(blocks, p)].next)

-----------------------------------------------------------------------------
(* fetch() calls that fail *)

\* what GraphFrame was when Blocks.build returned
BuiltFrame ==
    [i \in 1..Len(built) |->
        [prev |-> built[i].prev, next |-> built[i].next, share |-> built[i].share,
         ext_exe_prob |-> built[i].ext_exe_prob, uses |-> built[i].uses,
         input_image_ids |-> built[i].input_image_ids]]

\* C13: a fetch() that fails aborts only that call. When the first call has
\* failed, the compiled blocks are as they were before it (as build left
\* them); after any failed call, the next fetch() samples its path as it would
\* from the blocks build left, and it starts from an empty self.__data and with
\* empty pending input lists.
C13_FailedFetchAbortsOnlyItself ==
    /\ [](FetchEnded /\ outcome # "ok" =>
            /\ nfetch = 1 => GraphFrame = BuiltFrame
            /\ fetch_path(blocks, seed, gen).path = fetch_path(built, seed, gen).path
            /\ fetch_path(blocks, seed, gen).pos = fetch_path(built, seed, gen).pos)
    /\ [][(pc = "idle" /\ nfetch' = nfetch + 1) =>
            /\ data' = EmptyData
            /\ \A i \in 1..Len(path'.augmentations) :
                    path'.augmentations[i].input_image_ids = <<>>]_vars

\* C14: a fetch() in which no propagation recorded the final result (no sample
\* was seeded, or no branch got to the end of the path) ends in an exception;
\* it does not return, and the final result an earlier fetch() recorded is not
\* in self.__data for it to return.
C14_NoFinalResultIsAnError ==
    (FetchEnded /\ Events("output") = <<>>) =>
        /\ outcome \notin {"ok", "none", "running"}
        /\ DATA_OUTPUT \notin DOMAIN data
        /\ Len(trace) > 1 => result = trace[Len(trace) - 1].result

\* C14, the case: a fetch() of workflow 13 returned, and the next one, which
\* seeded no sample, has ended in a KeyError
C14_Witness ==
    /\ wf = 13
    /\ FetchEnded
    /\ nfetch = 2
    /\ trace[1].outcome = "ok"
    /\ trace[1].result # NoResult
    /\ Events("fetch") = <<>>
    /\ Events("output") = <<>>
    /\ outcome = "KeyError"

-----------------------------------------------------------------------------
(* Workflow files that build has to reject *)

\* the ids of the raw blocks of a workflow file
RawIds(raw_block_list) == {raw_block_list[k].id : k \in 1..Len(raw_block_list)}

\* some raw block's next or prev names an id that no raw block has
Dangling(raw_block_list) ==
    \E k \in 1..Len(raw_block_list) :
        \E id_ \in Range(raw_block_list[k].next) \cup Range(raw_block_list[k].prev) :
            id_ \notin RawIds(raw_block_list)

\* C15: build fails, and leaves no compiled blocks, whenever a raw block's
\* next or prev names an id that no raw block of the list has (workflows 14,
\* 17 and 23); the edge is not taken for the end of a path.
C15_DanglingEdgeFailsBuild ==
    (pc # "new" /\ Dangling(Workflows[wf])) =>
        /\ pc = "build_error"
        /\ blocks = <<>>

\* some raw block with successors has a shares list and a next list of
\* different lengths
SharesMismatch(raw_block_list) ==
    \E k \in 1..Len(raw_block_list) :
        /\ raw_block_list[k].next # <<>>
        /\ Len(raw_block_list[k].shares) # Len(raw_block_list[k].next)

\* C16: build fails, and leaves no compiled blocks, whenever a raw block's
\* shares list and next list have different lengths: more shares than
\* branches (workflow 16) or fewer (workflow 15).
C16_SharesMismatchFailsBuild ==
    (pc # "new" /\ SharesMismatch(Workflows[wf])) =>
        /\ pc = "build_error"
        /\ blocks = <<>>

\* no raw block of the workflow file has an empty next
NoSink(raw_block_list) ==
    \A k \in 1..Len(raw_block_list) : raw_block_list[k].next # <<>>

\* C17: build fails with an exception and leaves no compiled blocks when the
\* workflow has no sink, so that no compiled block has an empty next
\* (workflows 17 and 22).
C17_NoSinkFailsBuild ==
    (pc # "new" /\ NoSink(Workflows[wf])) =>
        /\ pc = "build_error"
        /\ outcome \notin {"none", "ok", "running"}
        /\ blocks = <<>>

\* C17, the case: the build of workflow 17, whose only path ends at a block
\* that is no output, has failed with the ValueError of _get_output_blocks
C17_Witness ==
    /\ wf = 17
    /\ NoSink(Workflows[wf])
    /\ pc = "build_error"
    /\ outcome = "ValueError"
    /\ gen = 2
    /\ blocks = <<>>

\* some raw block's shares sum to zero or to a negative number
SharesNotPositive(raw_block_list) ==
    \E k \in 1..Len(raw_block_list) : RLe(RSum(raw_block_list[k].shares), RInt(0))

\* C18: constructing a block whose raw shares sum to zero (workflow 19) or to
\* a negative number (workflow 18) fails, so build fails; no block whose
\* shares sum to zero or less is among the compiled blocks.
C18_SharesSumMustBePositive ==
    /\ (pc # "new" /\ SharesNotPositive(Workflows[wf])) =>
            /\ pc = "build_error"
            /\ blocks = <<>>
    /\ \A i \in 1..Len(blocks) : RLt(RInt(0), RSum(blocks[i].shares))

-----------------------------------------------------------------------------
(* The instances of a block with several branches *)

\* the share an instance was set with: Input keeps it in its own attribute
ShareOf(block) == IF block.category = "input" THEN block.input_share ELSE block.share

\* the compiled instances of the k-th raw block that were set with its i-th
\* branch: the i-th share, and a single next that is an instance of the i-th
\* next of the raw block
BranchInstances(k, i) ==
    {b \in InstancesOf(k) :
        /\ ShareOf(blocks[b]) = Workflows[wf][k].shares[i]
        /\ Len(blocks[b].next) = 1
        /\ _get_block_by_id(blocks, blocks[b].next[1]) # 0
        /\ blocks[_get_block_by_id(blocks, blocks[b].next[1])].raw = Workflows[wf][k].next[i]}

\* C19: for every raw block with V branches (V next ids, each the id of a raw
\* block, and V shares) that build reached, the compiled blocks hold V
\* instances of it with V different ids, one for each branch index, also when
\* two branches carry equal shares (workflows 8 and 20).
C19_OneInstancePerBranch ==
    Compiled =>
        \A k \in 1..Len(Workflows[wf]) :
            (/\ InstancesOf(k) # {}
             /\ Workflows[wf][k].next # <<>>
             /\ Range(Workflows[wf][k].next) \subseteq RawIds(Workflows[wf])
             /\ Len(Workflows[wf][k].shares) = Len(Workflows[wf][k].next)) =>
                /\ Cardinality(InstancesOf(k)) = Len(Workflows[wf][k].next)
                /\ Cardinality({blocks[b].id : b \in InstancesOf(k)})
                        = Len(Workflows[wf][k].next)
                /\ \A i \in 1..Len(Workflows[wf][k].next) : BranchInstances(k, i) # {}

-----------------------------------------------------------------------------
(* The execution probabilities build computes *)

\* the ext_exe_prob of the compiled blocks a block names in its prev
PrevExtExeProbs(block) ==
    [k \in 1..Len(block.prev) |->
        blocks[_get_block_by_id(blocks, block.prev[k])].ext_exe_prob]

\* C20: after build (of a workflow without dangling edges), every compiled
\* block X that is not a Source has ext_exe_prob = (the sum of the
\* ext_exe_prob of the blocks in X.prev) x X.share, each block's value being
\* computed once: also for a block behind which the workflow branches, which
\* the walks from several outputs pass (workflow 21).
C20_ExtExeProbIsPrevSumTimesShare ==
    (Compiled /\ ~ Dangling(Workflows[wf])) =>
        \A x \in 1..Len(blocks) :
            blocks[x].category # "input" =>
                /\ \A p \in Range(blocks[x].prev) : _get_block_by_id(blocks, p) # 0
                /\ blocks[x].ext_exe_prob =
                        RMul(RSum(PrevExtExeProbs(blocks[x])), blocks[x].share)

-----------------------------------------------------------------------------
(* Uses of the Sources of a path *)

\* the number of inputs a Transform consumes for one output: round(1 / fan_in)
Threshold(block) == RRound(RDiv(RInt(1), inflation(block)))

\* the number of dataset draws one output of the path needs: the product of the
\* thresholds of the path's Transforms, which lie one after the other
RECURSIVE SamplesNeeded(_)
SamplesNeeded(augmentations) ==
    IF augmentations = <<>> THEN 1
    ELSE Threshold(Head(augmentations)) * SamplesNeeded(Tail(augmentations))

\* the uses of the Sources of a path, added up
RECURSIVE TotalUses(_)
TotalUses(inputs_) ==
    IF inputs_ = <<>> THEN 0 ELSE Head(inputs_).uses + TotalUses(Tail(inputs_))

\* C21: the uses the path sampler leaves at the Sources of the path it returns
\* are the dataset draws one output of the path needs: 1 on a path without a
\* confluent Transform, the product of the thresholds otherwise.
C21_UsesAreTheSamplesNeeded ==
    pc = "exec" => TotalUses(inputs) = SamplesNeeded(path.augmentations)

-----------------------------------------------------------------------------
(* Confluent Transforms *)

\* the Transform consumes several inputs for one output
Confluent(block) == block.category # "input" /\ RLt(inflation(block), RInt(1))

\* the samples the Transform of the path has passed on so far: to the output
\* if it is the sink, else to the Transform after it
Forwarded(block) ==
    IF block.is_output THEN Len(EventsAt("output", block.id))
    ELSE Len(EventsAt("propagate", block.next[1]))

\* C22: a confluent Transform of the path appends every sample that reaches it
\* to its pending list, whatever its fire decision, and passes on one sample per
\* round(1 / fan_in) samples that reached it: what it has passed on are the
\* outputs of its apply calls, never a single input.
C22_ConfluentNeverPassesThrough ==
    \A i \in 1..Len(path.augmentations) :
        Confluent(path.augmentations[i]) =>
            /\ Len(EventsAt("propagate", path.augmentations[i].id))
                 = Threshold(path.augmentations[i])
                     * Len(EventsAt("apply", path.augmentations[i].id))
                   + Len(path.augmentations[i].input_image_ids)
            /\ Forwarded(path.augmentations[i])
                 = Len(EventsAt("apply", path.augmentations[i].id))

-----------------------------------------------------------------------------
(* Branch filters *)

\* the indexes of the data packages a draw from the dataset under the filter
\* can return: those of the filter, and the background ones if the dataset
\* has a background percentage
Admitted(dataset, filter_) ==
    Range(Datasets[dataset].filter_indexes[filter_])
        \cup (IF Datasets[dataset].background_percentage # None
              THEN Range(Datasets[dataset].background_indexes) ELSE {})

\* C23: every dataset draw made for a Source instance whose branch has a filter
\* is a draw under that filter: the data package drawn is one the filter admits.
C23_DrawsUseTheBranchFilter ==
    \A k \in 1..Len(Events("fetch")) : \A i \in 1..Len(inputs) :
        (inputs[i].id = Events("fetch")[k].block /\ inputs[i].filter # NoFilter)
            => Events("fetch")[k].vals[1].img.idx
                   \in Admitted(inputs[i].dataset, inputs[i].filter)

-----------------------------------------------------------------------------
(* Choice of the sink *)

\* the reach probabilities of the sinks, divided by their sum
NormalisedWeights(output_blocks) ==
    [i \in 1..Len(output_blocks) |->
        RDiv(output_blocks[i].ext_exe_prob,
             RSum([j \in 1..Len(output_blocks) |-> output_blocks[j].ext_exe_prob]))]

\* the ids of the sinks among the Transforms of a path
PathSinks(path_) ==
    {path_.augmentations[i].id : i \in {j \in 1..Len(path_.augmentations) :
                                            path_.augmentations[j].is_output}}

\* C24: the path sampler selects the sink by the sinks' reach probabilities
\* divided by their sum: the sink of the path a fetch() call samples is the one
\* the call's draw selects from the normalised weights.
C24_SinkChosenByNormalisedWeight ==
    [][(pc = "idle" /\ pc' = "exec")
         => PathSinks(path')
              = {fetch_by_prob_list(_get_output_blocks(blocks),
                                    NormalisedWeights(_get_output_blocks(blocks)),
                                    get_random(seed, gen)).id}]_vars

-----------------------------------------------------------------------------
(* Pending lists *)

\* the apply calls of the Transform with the id in a history
AppliesIn(hist_, id_) == SelectSeq(hist_, LAMBDA e : e.ev = "apply" /\ e.block = id_)

\* the indexes of the confluent Transforms of the path whose apply is called
\* in the step
Applying ==
    {i \in 1..Len(path.augmentations) :
        /\ Confluent(path.augmentations[i])
        /\ Len(AppliesIn(hist', path.augmentations[i].id))
             > Len(AppliesIn(hist, path.augmentations[i].id))}

\* between the steps the pending list of a confluent Transform of the path is
\* below the threshold and names buffered samples; apply was called on as many
\* samples as the threshold
PendingBelowThreshold ==
    \A i \in 1..Len(path.augmentations) :
        Confluent(path.augmentations[i]) =>
            /\ Len(path.augmentations[i].input_image_ids)
                 <= Threshold(path.augmentations[i]) - 1
            /\ Range(path.augmentations[i].input_image_ids) \subseteq DOMAIN data
            /\ \A k \in 1..Len(AppliesIn(hist, path.augmentations[i].id)) :
                 Len(AppliesIn(hist, path.augmentations[i].id)[k].vals)
                   = Threshold(path.augmentations[i])

\* a step of _execute_path in which apply of confluent Transforms is called:
\* each is called once, on the samples that were pending, in the order of their
\* arrival, and then on the sample that arrived; its list is left empty; the
\* entries the step deletes from the buffer are the pending ones of these
\* Transforms
ApplyTakesThePending ==
    (pc = "exec" /\ hist' # <<>>) =>
        /\ \A i \in Applying :
             /\ Len(AppliesIn(hist', path.augmentations[i].id))
                  = Len(AppliesIn(hist, path.augmentations[i].id)) + 1
             /\ Len(path.augmentations[i].input_image_ids)
                  = Threshold(path.augmentations[i]) - 1
             /\ \A k \in 1..Len(path.augmentations[i].input_image_ids) :
                  AppliesIn(hist', path.augmentations[i].id)
                      [Len(AppliesIn(hist', path.augmentations[i].id))].vals[k]
                    = data[path.augmentations[i].input_image_ids[k]]
             /\ path'.augmentations[i].input_image_ids = <<>>
        /\ (DOMAIN data) \ (DOMAIN data')
             = UNION {Range(path.augmentations[i].input_image_ids) : i \in Applying}

\* C25: the pending list of a confluent Transform holds between 0 and
\* threshold - 1 data-ids after each propagation step; the step on which it
\* reaches the threshold calls apply with the buffered samples in the order of
\* their arrival, deletes exactly those entries and leaves the list empty.
C25_PendingListBelowThreshold ==
    [] PendingBelowThreshold /\ [][ApplyTakesThePending]_vars

\* in workflow 24 the second MixUp was applied on two outputs of the first and
\* a third output of the first is pending at it
C25_Witness ==
    /\ wf = 24
    /\ pc = "exec"
    /\ \E i \in 1..Len(path.augmentations) :
         /\ path.augmentations[i].is_output
         /\ Len(AppliesIn(hist, path.augmentations[i].id)) = 1
         /\ Len(path.augmentations[i].input_image_ids) = 1

-----------------------------------------------------------------------------
(* The data buffer *)

\* the data-ids pending at the confluent Transforms of the path
PendingIds ==
    UNION {Range(path.augmentations[i].input_image_ids) :
             i \in {j \in 1..Len(path.augmentations) : Confluent(path.augmentations[j])}}

\* the entry of the buffer holds the result recorded at the sink (under the
\* output key, or under the data-id it was recorded from)
HoldsTheOutput(k) == DATA_OUTPUT \in DOMAIN data /\ data[k] = data[DATA_OUTPUT]

\* C26: every entry of the data buffer is deleted by the step that consumes it:
\* between the steps of a fetch() call the buffer holds only the samples pending
\* at confluent Transforms (and the result, once recorded), and when the call
\* returns it holds no sample other than the result of the sink.
C26_BufferHoldsOnlyPendingSamples ==
    /\ pc = "exec" => \A k \in DOMAIN data : k \in PendingIds \/ HoldsTheOutput(k)
    /\ (FetchEnded /\ outcome = "ok") => \A k \in DOMAIN data : HoldsTheOutput(k)

-----------------------------------------------------------------------------
(* Paths *)

\* the blocks of a path: its Sources, then its Transforms
PathBlocks(path_) == path_.inputs \o path_.augmentations

\* C27: every path the sampler returns is closed under next: each block of the
\* path other than the sink has one next id, and it is the id of a Transform of
\* the path, so that propagation never looks up a Transform the path lacks.
C27_PathClosedUnderNext ==
    pc = "exec" =>
        \A i \in 1..Len(PathBlocks(path)) :
            ~ PathBlocks(path)[i].is_output =>
                /\ Len(PathBlocks(path)[i].next) = 1
                /\ PathAugIndex(path, PathBlocks(path)[i].next[1]) # 0

\* C28: in every fetch() call that returns, the result is recorded at the sink
\* exactly once, so it is never overwritten, and no seeded sample is left over:
\* no pending list holds a data-id and the buffer holds the result only.
C28_ResultRecordedOnce ==
    (FetchEnded /\ outcome = "ok") =>
        /\ Len(Events("output")) = 1
        /\ PendingIds = {}
        /\ DOMAIN data \subseteq {DATA_OUTPUT} \cup {Events("output")[k].d : k \in 1..Len(Events("output"))}

-----------------------------------------------------------------------------
(* Range of ext_exe_prob *)

\* a workflow with valid Sources and shares: it has a sink, no edge to a block
\* it lacks, one share per branch, shares that are positive and sum to 1, and
\* fire probabilities that are floats
ValidWorkflow(raw_block_list) ==
    /\ raw_block_list # <<>>
    /\ ~ Dangling(raw_block_list)
    /\ ~ SharesMismatch(raw_block_list)
    /\ ~ NoSink(raw_block_list)
    /\ \A k \in 1..Len(raw_block_list) :
         /\ RSum(raw_block_list[k].shares) = RInt(1)
         /\ \A j \in 1..Len(raw_block_list[k].shares) :
              RLt(RInt(0), raw_block_list[k].shares[j])
         /\ raw_block_list[k].type = "augmentation" => raw_block_list[k].exe_float

\* C29: the build of a workflow with valid Sources and shares never fails on
\* the range assertion of the ext_exe_prob setter, and after it every compiled
\* block's ext_exe_prob lies in [0, 1]; also when several branches of a Source
\* reconverge on one Transform (workflow 27).
C29_ExtExeProbWithinRange ==
    ValidWorkflow(Workflows[wf]) =>
        /\ pc = "build_error" => outcome # "AssertionError"
        /\ Compiled => \A i \in 1..Len(blocks) :
                         /\ RLe(RInt(0), blocks[i].ext_exe_prob)
                         /\ RLe(blocks[i].ext_exe_prob, RInt(1))

-----------------------------------------------------------------------------
(* Routes *)

\* the ids reached from the ids by following next in the block list, in at
\* most n steps
RECURSIVE ReachByNext(_, _, _)
ReachByNext(list, ids, n) ==
    IF n = 0 THEN ids
    ELSE ReachByNext(list,
                     ids \cup UNION {Range(list[k].next) :
                                       k \in {j \in 1..Len(list) : list[j].id \in ids}},
                     n - 1)

\* the ids reached from the ids by following prev in the block list, in at
\* most n steps: the blocks root walks over
RECURSIVE ReachByPrev(_, _, _)
ReachByPrev(list, ids, n) ==
    IF n = 0 THEN ids
    ELSE ReachByPrev(list,
                     ids \cup UNION {Range(list[k].prev) :
                                       k \in {j \in 1..Len(list) : list[j].id \in ids}},
                     n - 1)

\* the raw Source s has a route to the raw sink t
RawRoute(raw_block_list, s, t) ==
    /\ raw_block_list[s].type = "input"
    /\ raw_block_list[t].next = <<>>
    /\ raw_block_list[t].id \in ReachByNext(raw_block_list, {raw_block_list[s].id},
                                            Len(raw_block_list))

\* some compiled instance of the raw sink has a compiled instance of the raw
\* Source among the blocks before it
CompiledRoute(raw_s, raw_t) ==
    \E j \in 1..Len(blocks) : \E i \in 1..Len(blocks) :
        /\ blocks[j].raw = raw_t
        /\ blocks[i].raw = raw_s
        /\ blocks[i].id \in ReachByPrev(blocks, {blocks[j].id}, Len(blocks))

\* C30: deduplication removes no route: after the build of a valid workflow,
\* every raw sink that a raw Source reaches has a compiled instance that an
\* instance of that Source reaches; also when two raw Transforms of equal kind,
\* parameters, fire probability and share have different next targets
\* (workflow 28).
C30_DeduplicationKeepsRoutes ==
    (Compiled /\ ValidWorkflow(Workflows[wf])) =>
        \A s \in 1..Len(Workflows[wf]) : \A t \in 1..Len(Workflows[wf]) :
            RawRoute(Workflows[wf], s, t)
                => CompiledRoute(Workflows[wf][s].id, Workflows[wf][t].id)

====
